---- MODULE Spec2Model ----
(***************************************************************************)
(* Model of the accrual / pro-ration engine of xialoom-finance:            *)
(* calculatePeriodStats (src/src/lib/finance.ts), and of the category      *)
(* breakdown of the Analysis view that calls it (loadCharts).              *)
(*                                                                         *)
(* Representation.                                                         *)
(*  - A date string 'YYYY-MM-DD' is the number of that calendar day,       *)
(*    counted from 2023-01-01 = 0.  A negative number is a string that     *)
(*    does not parse.                                                      *)
(*  - A JavaScript Date is an instant in minutes since 2023-01-01T00:00Z;  *)
(*    a negative instant is the Invalid Date (NaN).  Local time is the     *)
(*    instant plus the zone offset tz (no daylight saving).                *)
(*  - A JavaScript number holding money is an integer multiple of          *)
(*    1/Scale currency units; Scale is divisible by every divisor the      *)
(*    engine meets on the explored inputs, so the arithmetic is exact      *)
(*    (binary rounding of doubles is not modelled).  A quotient that is    *)
(*    not such a multiple (the overlap ratio of the Analysis view) is a    *)
(*    fraction <<numerator, denominator>> in lowest terms.                 *)
(***************************************************************************)
EXTENDS Integers, Sequences, FiniteSets, TLC

VARIABLES tz, transactions, startDateStr, endDateStr, stats, idx, i, pc,
          call, previous, currentDate, catMap, db,
          split, rangeType, range, conn, vault

\* What the caller of calculatePeriodStats holds: the number of the call it
\* is making, the result the call before returned, and, in the Analysis
\* view, the displayed month, the category breakdown and the stored rows
\* of the transactions table.
\* The rest of the application: the window split a caller is evaluating, the
\* range mode of the Dashboard, the database connection module and the
\* Vault component.
rest == <<split, rangeType, range, conn, vault>>

caller == <<call, previous, currentDate, catMap, db, rest>>

\* the rest of the application at rest
RestIdle ==
    /\ split = <<>>
    /\ rangeType = "MONTHLY"
    /\ range = <<>>
    /\ conn = <<>>
    /\ vault = <<>>

vars == <<tz, transactions, startDateStr, endDateStr, stats, idx, i, pc,
          caller>>

----------------------------------------------------------------------------
(* Bounds of the explored inputs *)

MaxTx == 2
MaxMonths == 2

----------------------------------------------------------------------------
(* Calendar arithmetic of the Date built-in *)

OneDay == 24 * 60

Scale == 8 * 9 * 5 * 29 * 31

IsLeap(y) == (y % 4 = 0 /\ y % 100 # 0) \/ y % 400 = 0

DaysInYear(y) == IF IsLeap(y) THEN 366 ELSE 365

\* m is a month index 0..11 as returned by getMonth
DaysInMonth(y, m) ==
    IF m = 1 THEN (IF IsLeap(y) THEN 29 ELSE 28)
    ELSE IF m \in {3, 5, 8, 10} THEN 30 ELSE 31

RECURSIVE DaysBeforeYear(_)
DaysBeforeYear(y) ==
    IF y <= 2023 THEN 0 ELSE DaysBeforeYear(y - 1) + DaysInYear(y - 1)

RECURSIVE DaysBeforeMonth(_, _)
DaysBeforeMonth(y, m) ==
    IF m = 0 THEN 0 ELSE DaysBeforeMonth(y, m - 1) + DaysInMonth(y, m - 1)

\* MakeDay: month and day of month may overflow and are carried over
MakeDay(y, m, d) ==
    DaysBeforeYear(y + (m \div 12)) + DaysBeforeMonth(y + (m \div 12), m % 12) + d - 1

\* YearFromTime, MonthFromTime, DateFromTime of a day number
CivilOf(day) ==
    LET y == CHOOSE yy \in 2023..2027 :
                 DaysBeforeYear(yy) <= day /\ day < DaysBeforeYear(yy + 1)
        m == CHOOSE mm \in 0..11 :
                 /\ MakeDay(y, mm, 1) <= day
                 /\ day < MakeDay(y, mm, 1) + DaysInMonth(y, mm)
    IN  [year |-> y, month |-> m, date |-> day - MakeDay(y, m, 1) + 1]

\* the same, tabulated once for the days the model can reach
Civil == [day \in 0..(4 * 366) |-> CivilOf(day)]

YearOf(day) == Civil[day].year

MonthOf(day) == Civil[day].month

DateOf(day) == Civil[day].date

\* the date string 'y-m-d', m counted from 1 as it is written
ISO(y, m, d) == MakeDay(y, m - 1, d)

----------------------------------------------------------------------------
(* Date objects *)

IsNaN(t) == t < 0

\* new Date('YYYY-MM-DD'): midnight UTC of that day
ParseDate(s) == IF s < 0 THEN s ELSE s * OneDay

LocalDay(t) == (t + tz) \div OneDay

\* d.setHours(h, m, ...): the given local time of day on d's local day
SetHours(t, minuteOfDay) ==
    IF IsNaN(t) THEN t ELSE LocalDay(t) * OneDay + minuteOfDay - tz

\* d.setMonth(d.getMonth() + k): local fields, time of day kept
AddMonths(t, k) ==
    IF IsNaN(t) THEN t
    ELSE MakeDay(YearOf(LocalDay(t)), MonthOf(LocalDay(t)) + k, DateOf(LocalDay(t))) * OneDay
         + ((t + tz) % OneDay) - tz

\* d.setDate(d.getDate() + 1)
NextDay(t) == IF IsNaN(t) THEN t ELSE t + OneDay

\* d.toISOString().split('T')[0]: the UTC calendar day
ToISODate(t) == t \div OneDay

\* relational operators on Dates: false when either side is NaN
DateLT(a, b) == ~IsNaN(a) /\ ~IsNaN(b) /\ a < b
DateLE(a, b) == ~IsNaN(a) /\ ~IsNaN(b) /\ a <= b

----------------------------------------------------------------------------
(* Inputs *)

FlowTypes == {"INCOME", "EXPENSE"}

TZOffsets == {0 - 300, 0, 480}

TxDates == {ISO(2024, 1, 15), ISO(2024, 1, 31)}

\* <<startDateStr, endDateStr>>; the last one is reversed
Windows ==
    { <<ISO(2024, 1, 15), ISO(2024, 1, 15)>>,
      <<ISO(2024, 1, 31), ISO(2024, 3, 31)>>,
      <<ISO(2024, 1, 15), ISO(2024, 3, 31)>>,
      <<ISO(2024, 1, 31), ISO(2024, 1, 15)>> }

Unparseable == 0 - 1

\* single-occurrence records and records amortized over MaxMonths months
ValidTx ==
    [category_type : FlowTypes, amount : {1}, date : TxDates,
     months_covered : {1, MaxMonths}]

\* months_covered is optional in the Transaction type
AbsentTx == { [category_type |-> "INCOME", amount |-> 2, date |-> ISO(2024, 1, 15)] }

MalformedTx ==
    { [category_type |-> "EXPENSE", amount |-> 2, date |-> ISO(2024, 1, 15), months_covered |-> 0],
      [category_type |-> "EXPENSE", amount |-> 1, date |-> ISO(2024, 1, 15), months_covered |-> 0 - 1],
      [category_type |-> "INCOME", amount |-> 0 - 1, date |-> ISO(2024, 1, 15), months_covered |-> 1],
      [category_type |-> "EXPENSE", amount |-> 1, date |-> Unparseable, months_covered |-> 2] }

TxPool == ValidTx \cup AbsentTx \cup MalformedTx

TxLists == UNION { [1..n -> TxPool] : n \in 0..MaxTx }

----------------------------------------------------------------------------
(* calculatePeriodStats *)

ZeroDay == [income |-> 0, expense |-> 0, balance |-> 0]

ZeroStatsPrefilled ==
    [totalIncome |-> 0, totalExpense |-> 0, balance |-> 0,
     dailyStats |-> (startDateStr :> ZeroDay)]

ZeroStats == [totalIncome |-> 0, totalExpense |-> 0, balance |-> 0, dailyStats |-> <<>>]

startDate == SetHours(ParseDate(startDateStr), 0)

endDate == SetHours(ParseDate(endDateStr), 23 * 60 + 59)

InWindowNoEnd(t) == DateLE(startDate, t)

InWindow(t) == DateLE(startDate, t) /\ DateLE(t, endDate)

\* variant: the day's balance is taken before the amount is added
AddDailyStaleBalance(daily, dateStr, amount, type) ==
    LET d0 == IF dateStr \in DOMAIN daily THEN daily ELSE daily @@ (dateStr :> ZeroDay)
        d1 == IF type = "INCOME"
              THEN [d0 EXCEPT ![dateStr].income = @ + amount]
              ELSE [d0 EXCEPT ![dateStr].expense = @ + amount]
    IN  [d1 EXCEPT ![dateStr].balance = d0[dateStr].income - d0[dateStr].expense]

AddDaily(daily, dateStr, amount, type) ==
    LET d0 == IF dateStr \in DOMAIN daily THEN daily ELSE daily @@ (dateStr :> ZeroDay)
        d1 == IF type = "INCOME"
              THEN [d0 EXCEPT ![dateStr].income = @ + amount]
              ELSE [d0 EXCEPT ![dateStr].expense = @ + amount]
    IN  [d1 EXCEPT ![dateStr].balance = d1[dateStr].income - d1[dateStr].expense]

\* the income / expense branch taken for one allocation inside the window
AllocateCrossed(st, dateStr, amount, type) ==
    IF type = "INCOME"
    THEN [st EXCEPT !.totalIncome = @ + amount,
                    !.dailyStats = AddDaily(@, dateStr, amount, "EXPENSE")]
    ELSE [st EXCEPT !.totalExpense = @ + amount,
                    !.dailyStats = AddDaily(@, dateStr, amount, "EXPENSE")]

Allocate(st, dateStr, amount, type) ==
    IF type = "INCOME"
    THEN [st EXCEPT !.totalIncome = @ + amount,
                    !.dailyStats = AddDaily(@, dateStr, amount, "INCOME")]
    ELSE [st EXCEPT !.totalExpense = @ + amount,
                    !.dailyStats = AddDaily(@, dateStr, amount, "EXPENSE")]

TxDate(tx) == SetHours(ParseDate(tx.date), 0)

\* tx.months_covered || 1
\* an absent months_covered read as 0 months
MonthsAbsentAsZero(tx) ==
    IF "months_covered" \in DOMAIN tx /\ tx.months_covered # 0 THEN tx.months_covered ELSE 0

Months(tx) ==
    IF "months_covered" \in DOMAIN tx /\ tx.months_covered # 0 THEN tx.months_covered ELSE 1

TotalAmount(tx) == tx.amount * Scale

MonthlyAmount(tx) == TotalAmount(tx) \div Months(tx)

BucketStart(txDate, n) == AddMonths(txDate, n)

BucketEndFromStart(txDate, n) == AddMonths(BucketStart(txDate, n), 1)

BucketEndSameMonth(txDate, n) == AddMonths(txDate, n)

BucketEnd(txDate, n) == AddMonths(txDate, n + 1)

\* Math.round((bucketEnd - bucketStart) / oneDayMs); NaN is kept as a negative value
DaysInBucketThirty(txDate, n) == 30

DaysInBucketOfEndMonth(txDate, n) ==
    IF IsNaN(txDate) THEN txDate
    ELSE DaysInMonth(YearOf(LocalDay(BucketEnd(txDate, n))),
                     MonthOf(LocalDay(BucketEnd(txDate, n))))

DaysInBucket(txDate, n) ==
    IF IsNaN(txDate) THEN txDate
    ELSE (2 * (BucketEnd(txDate, n) - BucketStart(txDate, n)) + OneDay) \div (2 * OneDay)

\* variant: the bucket's end boundary is visited too
RECURSIVE ScanBucketInclusive(_, _, _, _)
ScanBucketInclusive(currentScanDate, bucketEnd, n, dailyAmount) ==
    IF DateLE(currentScanDate, bucketEnd)
    THEN <<[bucket |-> n, at |-> currentScanDate, amount |-> dailyAmount]>>
         \o ScanBucketInclusive(NextDay(currentScanDate), bucketEnd, n, dailyAmount)
    ELSE <<>>

\* the while loop over the days of one bucket: the days it visits, in order
RECURSIVE ScanBucket(_, _, _, _)
ScanBucket(currentScanDate, bucketEnd, n, dailyAmount) ==
    IF DateLT(currentScanDate, bucketEnd)
    THEN <<[bucket |-> n, at |-> currentScanDate, amount |-> dailyAmount]>>
         \o ScanBucket(NextDay(currentScanDate), bucketEnd, n, dailyAmount)
    ELSE <<>>

\* one iteration of the for loop over the buckets: the days it visits
BucketAllocations(tx, n) ==
    LET daysInBucket == DaysInBucket(TxDate(tx), n)
    IN  IF ~IsNaN(daysInBucket) /\ daysInBucket <= 0
        THEN <<>>
        ELSE ScanBucket(BucketStart(TxDate(tx), n), BucketEnd(TxDate(tx), n), n,
                        IF IsNaN(daysInBucket) THEN daysInBucket
                        ELSE MonthlyAmount(tx) \div daysInBucket)

\* the for loop over the buckets
RECURSIVE ScanBuckets(_, _)
ScanBuckets(tx, n) ==
    IF n < Months(tx)
    THEN BucketAllocations(tx, n) \o ScanBuckets(tx, n + 1)
    ELSE <<>>

Allocations(tx) == ScanBuckets(tx, 0)

\* variant: the running total is updated before the window test
RECURSIVE AccumulateTotalOutside(_, _, _, _)
AccumulateTotalOutside(st, allocs, k, type) ==
    IF k > Len(allocs) THEN st
    ELSE AccumulateTotalOutside(
            IF InWindow(allocs[k].at)
            THEN Allocate(st, ToISODate(allocs[k].at), allocs[k].amount, type)
            ELSE IF type = "INCOME"
                 THEN [st EXCEPT !.totalIncome = @ + allocs[k].amount]
                 ELSE [st EXCEPT !.totalExpense = @ + allocs[k].amount],
            allocs, k + 1, type)

\* the body of the while loop, applied to the visited days in order
RECURSIVE Accumulate(_, _, _, _)
Accumulate(st, allocs, k, type) ==
    IF k > Len(allocs) THEN st
    ELSE Accumulate(IF InWindow(allocs[k].at)
                    THEN Allocate(st, ToISODate(allocs[k].at), allocs[k].amount, type)
                    ELSE st,
                    allocs, k + 1, type)

\* variant: the day is keyed as in the amortized branch
SingleStatsISOKey(st, tx) ==
    IF InWindow(TxDate(tx))
    THEN Allocate(st, ToISODate(TxDate(tx)), TotalAmount(tx), tx.category_type)
    ELSE st

SingleStats(st, tx) ==
    IF InWindow(TxDate(tx))
    THEN Allocate(st, tx.date, TotalAmount(tx), tx.category_type)
    ELSE st

BucketStats(st, tx, n) ==
    LET allocs == BucketAllocations(tx, n)
    IN  Accumulate(st, allocs, 1, tx.category_type)

\* variant: operands exchanged
FinalBalanceSwapped(st) == st.totalExpense - st.totalIncome

FinalBalance(st) == st.totalIncome - st.totalExpense

----------------------------------------------------------------------------
(* The call as a state machine: one step per forEach callback of a        *)
(* single-occurrence record, one step per bucket of an amortized record,  *)
(* then the return.                                                        *)

Init ==
    /\ tz \in TZOffsets
    /\ transactions \in TxLists
    /\ \E w \in Windows : startDateStr = w[1] /\ endDateStr = w[2]
    /\ stats = ZeroStats
    /\ idx = 1
    /\ i = 0
    /\ pc = "forEach"
    /\ call = 1
    /\ previous = ZeroStats
    /\ currentDate = 0
    /\ catMap = <<>>
    /\ db = <<>>
    /\ RestIdle

SingleOccurrenceWriteBack ==
    /\ pc = "forEach"
    /\ idx <= Len(transactions)
    /\ Months(transactions[idx]) = 1
    /\ stats' = SingleStats(stats, transactions[idx])
    /\ idx' = idx + 1
    /\ transactions' =
         [transactions EXCEPT ![idx] =
            [f \in DOMAIN @ \cup {"months_covered"} |->
                IF f = "months_covered" THEN Months(@) ELSE @[f]]]
    /\ UNCHANGED <<tz, startDateStr, endDateStr, i, pc, caller>>

SingleOccurrence ==
    /\ pc = "forEach"
    /\ idx <= Len(transactions)
    /\ Months(transactions[idx]) = 1
    /\ stats' = SingleStats(stats, transactions[idx])
    /\ idx' = idx + 1
    /\ UNCHANGED <<tz, transactions, startDateStr, endDateStr, i, pc,
                   caller>>

Bucket ==
    /\ pc = "forEach"
    /\ idx <= Len(transactions)
    /\ Months(transactions[idx]) # 1
    /\ i < Months(transactions[idx])
    /\ stats' = BucketStats(stats, transactions[idx], i)
    /\ i' = i + 1
    /\ UNCHANGED <<tz, transactions, startDateStr, endDateStr, idx, pc,
                   caller>>

EndAmortize ==
    /\ pc = "forEach"
    /\ idx <= Len(transactions)
    /\ Months(transactions[idx]) # 1
    /\ ~(i < Months(transactions[idx]))
    /\ idx' = idx + 1
    /\ i' = 0
    /\ UNCHANGED <<tz, transactions, startDateStr, endDateStr, stats, pc,
                   caller>>

Return ==
    /\ pc = "forEach"
    /\ idx > Len(transactions)
    /\ stats' = [stats EXCEPT !.balance = FinalBalance(stats)]
    /\ pc' = "done"
    /\ UNCHANGED <<tz, transactions, startDateStr, endDateStr, idx, i,
                   caller>>

Next == SingleOccurrence \/ Bucket \/ EndAmortize \/ Return

Spec == Init /\ [][Next]_vars

----------------------------------------------------------------------------
(* Vocabulary of the properties *)

Entry(st, d) == IF d \in DOMAIN st.dailyStats THEN st.dailyStats[d] ELSE ZeroDay

RECURSIVE SumRange(_, _, _, _)
SumRange(daily, lo, hi, field) ==
    IF lo > hi THEN 0
    ELSE IF lo = hi THEN (IF lo \in DOMAIN daily THEN daily[lo][field] ELSE 0)
    ELSE SumRange(daily, lo, (lo + hi) \div 2, field)
         + SumRange(daily, ((lo + hi) \div 2) + 1, hi, field)

\* the sum of one field over all keys of a dailyStats map
SumDaily(daily, field) ==
    IF DOMAIN daily = {} THEN 0
    ELSE SumRange(daily,
                  CHOOSE lo \in DOMAIN daily : \A k \in DOMAIN daily : lo <= k,
                  CHOOSE hi \in DOMAIN daily : \A k \in DOMAIN daily : k <= hi,
                  field)

\* the record whose callback ran last
LastTx == transactions[idx - 1]

HasMonths(tx) == "months_covered" \in DOMAIN tx

\* the calendar date an instant stands for under the engine's own reading
\* of date strings: the date string that TxDate maps to this instant
CalDay(t) == CHOOSE d \in {LocalDay(t), LocalDay(t) + 1} : SetHours(ParseDate(d), 0) = t

\* the window as the calendar dates the caller passed
DateInWindow(d) == startDateStr <= d /\ d <= endDateStr

----------------------------------------------------------------------------
(* C1: conservation. In the result of a call, totalIncome is the sum of     *)
(* dailyStats[d].income over all keys d and totalExpense is the sum of      *)
(* dailyStats[d].expense over all keys d.                                   *)

C1_Conservation ==
    pc = "done" =>
        /\ stats.totalIncome = SumDaily(stats.dailyStats, "income")
        /\ stats.totalExpense = SumDaily(stats.dailyStats, "expense")

\* a finished call in which an amortized record was clipped by the window and
\* both flows were accumulated
C1_Witness ==
    /\ pc = "done"
    /\ stats.totalIncome > 0
    /\ stats.totalExpense > 0
    /\ Cardinality(DOMAIN stats.dailyStats) > 1
    /\ \E k \in 1..Len(transactions) :
          /\ HasMonths(transactions[k])
          /\ transactions[k].months_covered > 1
          /\ \E a \in 1..Len(Allocations(transactions[k])) :
                ~InWindow(Allocations(transactions[k])[a].at)

----------------------------------------------------------------------------
(* Allocations a record makes inside the window, by calendar date          *)

RECURSIVE SumInWindow(_, _, _)
SumInWindow(allocs, lo, hi) ==
    IF lo > hi THEN 0
    ELSE IF lo = hi
         THEN (IF DateInWindow(CalDay(allocs[lo].at)) THEN allocs[lo].amount ELSE 0)
    ELSE SumInWindow(allocs, lo, (lo + hi) \div 2)
         + SumInWindow(allocs, ((lo + hi) \div 2) + 1, hi)

BucketInWindow(tx, n) == SumInWindow(BucketAllocations(tx, n), 1, Len(BucketAllocations(tx, n)))

\* what the first nb buckets of a record (or the record itself when it is a
\* single occurrence) bring into the window
RECURSIVE RecordInWindow(_, _)
RecordInWindow(tx, nb) ==
    IF Months(tx) = 1
    THEN (IF DateInWindow(tx.date) THEN TotalAmount(tx) ELSE 0)
    ELSE IF nb <= 0 THEN 0
    ELSE RecordInWindow(tx, nb - 1) + BucketInWindow(tx, nb - 1)

RECURSIVE ProcessedInWindow(_, _)
ProcessedInWindow(type, k) ==
    IF k <= 0 THEN 0
    ELSE ProcessedInWindow(type, k - 1)
         + (IF transactions[k].category_type # type THEN 0
            ELSE IF k < idx THEN RecordInWindow(transactions[k], Months(transactions[k]))
            ELSE IF k = idx /\ Months(transactions[k]) # 1 THEN RecordInWindow(transactions[k], i)
            ELSE 0)

\* the in-window allocations of everything processed so far
InWindowTotal(type) == ProcessedInWindow(type, Len(transactions))

----------------------------------------------------------------------------
(* C2: window clipping. No key of dailyStats is a calendar date earlier    *)
(* than startDateStr or later than endDateStr, and allocation days outside *)
(* the window add nothing to totalIncome or totalExpense.                  *)

C2_WindowClipping ==
    /\ \A d \in DOMAIN stats.dailyStats : DateInWindow(d)
    /\ stats.totalIncome = InWindowTotal("INCOME")
    /\ stats.totalExpense = InWindowTotal("EXPENSE")

----------------------------------------------------------------------------
(* C3: the window is inclusive on both ends. Every allocation whose        *)
(* calendar date d satisfies startDateStr <= d <= endDateStr is added to   *)
(* dailyStats[d] and to the matching total; none inside the window is      *)
(* dropped.                                                                *)

Field(tx) == IF tx.category_type = "INCOME" THEN "income" ELSE "expense"

TotalOf(st, tx) == IF tx.category_type = "INCOME" THEN st.totalIncome ELSE st.totalExpense

\* the allocations made by the step that is being taken
StepAllocations ==
    IF Months(transactions[idx]) = 1
    THEN (IF IsNaN(TxDate(transactions[idx])) THEN <<>>
          ELSE <<[bucket |-> 0, at |-> TxDate(transactions[idx]),
                  amount |-> TotalAmount(transactions[idx])]>>)
    ELSE BucketAllocations(transactions[idx], i)

AllocatingStep ==
    /\ pc = "forEach"
    /\ idx <= Len(transactions)
    /\ \/ Months(transactions[idx]) = 1 /\ idx' = idx + 1
       \/ Months(transactions[idx]) # 1 /\ i' = i + 1

C3_InclusiveWindow ==
    [][AllocatingStep =>
         /\ \A a \in 1..Len(StepAllocations) :
               DateInWindow(CalDay(StepAllocations[a].at)) =>
                  Entry(stats', CalDay(StepAllocations[a].at))[Field(transactions[idx])]
                    = Entry(stats, CalDay(StepAllocations[a].at))[Field(transactions[idx])]
                      + StepAllocations[a].amount
         /\ TotalOf(stats', transactions[idx])
              = TotalOf(stats, transactions[idx])
                + SumInWindow(StepAllocations, 1, Len(StepAllocations))]_vars

----------------------------------------------------------------------------
(* C4: bucket completeness with equal monthly share. For a record with     *)
(* coverageMonths = N > 1, each bucket n in 0..N-1 emits daysInBucket      *)
(* allocations of monthlyShare / daysInBucket each, which sum to           *)
(* amount / N whatever the bucket's length, and the buckets together       *)
(* cover, day by day and once each, the N calendar months that follow the  *)
(* record's anchor txDate.                                                 *)

ValidMulti(tx) ==
    HasMonths(tx) /\ tx.months_covered > 1 /\ tx.amount >= 0 /\ tx.date >= 0

BucketIdx(allocs, n) == { j \in 1..Len(allocs) : allocs[j].bucket = n }

RECURSIVE SumBucket(_, _, _, _)
SumBucket(allocs, lo, hi, n) ==
    IF lo > hi THEN 0
    ELSE IF lo = hi THEN (IF allocs[lo].bucket = n THEN allocs[lo].amount ELSE 0)
    ELSE SumBucket(allocs, lo, (lo + hi) \div 2, n)
         + SumBucket(allocs, ((lo + hi) \div 2) + 1, hi, n)

SpanDays(tx) == (AddMonths(TxDate(tx), tx.months_covered) - TxDate(tx)) \div OneDay

BucketsComplete(tx) ==
    LET al == Allocations(tx)
        N == tx.months_covered
        span == SpanDays(tx)
    IN  /\ \A n \in 0..(N - 1) :
              LET days == DaysInBucket(TxDate(tx), n)
                  idxs == BucketIdx(al, n)
              IN  /\ Cardinality(idxs) = days
                  /\ \A j \in idxs : al[j].amount * days * N = tx.amount * Scale
                  /\ SumBucket(al, 1, Len(al), n) * N = tx.amount * Scale
        /\ \A j \in 1..Len(al) : al[j].bucket \in 0..(N - 1)
        /\ Len(al) = span
        /\ { al[j].at : j \in 1..Len(al) }
             = { TxDate(tx) + d * OneDay : d \in 0..(span - 1) }

----------------------------------------------------------------------------
(* C5: single-occurrence passthrough. A record with coverageMonths = 1     *)
(* whose date lies inside the window adds its full amount to the           *)
(* dailyStats entry keyed by its date and to the matching total and        *)
(* touches no other date; outside the window it changes nothing.           *)

SingleEffect(st, st2, tx) ==
    /\ DOMAIN st2.dailyStats = DOMAIN st.dailyStats \cup {tx.date}
    /\ \A d \in DOMAIN st.dailyStats \ {tx.date} : st2.dailyStats[d] = st.dailyStats[d]
    /\ IF tx.category_type = "INCOME"
       THEN /\ st2.dailyStats[tx.date].income = Entry(st, tx.date).income + tx.amount * Scale
            /\ st2.dailyStats[tx.date].expense = Entry(st, tx.date).expense
            /\ st2.totalIncome = st.totalIncome + tx.amount * Scale
            /\ st2.totalExpense = st.totalExpense
       ELSE /\ st2.dailyStats[tx.date].expense = Entry(st, tx.date).expense + tx.amount * Scale
            /\ st2.dailyStats[tx.date].income = Entry(st, tx.date).income
            /\ st2.totalExpense = st.totalExpense + tx.amount * Scale
            /\ st2.totalIncome = st.totalIncome

C5_SinglePassthrough ==
    [][(/\ pc = "forEach"
        /\ idx <= Len(transactions)
        /\ HasMonths(transactions[idx])
        /\ transactions[idx].months_covered = 1
        /\ idx' = idx + 1)
       => IF DateInWindow(transactions[idx].date)
          THEN SingleEffect(stats, stats', transactions[idx])
          ELSE stats' = stats]_vars

\* away from UTC, a single-occurrence record dated on the first day of the
\* window has been added after another record
C5_Witness ==
    /\ tz # 0
    /\ idx = 3
    /\ i = 0
    /\ HasMonths(LastTx)
    /\ LastTx.months_covered = 1
    /\ LastTx.date = startDateStr
    /\ DateInWindow(LastTx.date)
    /\ Entry(stats, LastTx.date)[Field(LastTx)] >= LastTx.amount * Scale
    /\ LastTx.amount > 0
    /\ Cardinality(DOMAIN stats.dailyStats) > 1

----------------------------------------------------------------------------
(* C6: a malformed record (coverageMonths < 1, negative amount or          *)
(* unparseable date) makes the call fail with a validation error: no       *)
(* result is returned for a record list that holds one.                    *)

Malformed(tx) ==
    \/ HasMonths(tx) /\ tx.months_covered < 1
    \/ tx.amount < 0
    \/ tx.date < 0

C6_MalformedRejected ==
    pc = "done" => \A k \in 1..Len(transactions) : ~Malformed(transactions[k])

----------------------------------------------------------------------------
(* C7: a window with windowStart > windowEnd makes the call fail with a    *)
(* validation error: no statistics object is returned for a reversed       *)
(* range.                                                                  *)

C7_ReversedWindowRejected == pc = "done" => startDateStr <= endDateStr

----------------------------------------------------------------------------
(* C8: in every returned result, balance = totalIncome - totalExpense.     *)

C8_Balance == pc = "done" => stats.balance = stats.totalIncome - stats.totalExpense

C8_Witness ==
    /\ pc = "done"
    /\ stats.totalIncome > 0
    /\ stats.totalExpense > stats.totalIncome
    /\ stats.balance < 0

----------------------------------------------------------------------------
(* C9: for every key d of dailyStats, after any number and order of income *)
(* and expense allocations landing on d, dailyStats[d].balance =           *)
(* dailyStats[d].income - dailyStats[d].expense.                           *)

C9_DailyBalance ==
    \A d \in DOMAIN stats.dailyStats :
        stats.dailyStats[d].balance = stats.dailyStats[d].income - stats.dailyStats[d].expense

\* a day that received an income and then an expense allocation
C9_Witness ==
    /\ idx > 2
    /\ transactions[1].category_type = "INCOME"
    /\ transactions[2].category_type = "EXPENSE"
    /\ \E d \in DOMAIN stats.dailyStats :
          /\ stats.dailyStats[d].income > 0
          /\ stats.dailyStats[d].expense > 0
          /\ stats.dailyStats[d].balance # 0

----------------------------------------------------------------------------
(* C10: when an INCOME record and an EXPENSE record both allocate to the   *)
(* same calendar day inside the window, both contributions are in the      *)
(* dailyStats entry keyed by that day's ISO date and the entry's balance   *)
(* is the income contribution minus the expense contribution.              *)

WellFormed(tx) == ~Malformed(tx)

RECURSIVE SumOnDay(_, _, _, _)
SumOnDay(allocs, lo, hi, d) ==
    IF lo > hi THEN 0
    ELSE IF lo = hi THEN (IF CalDay(allocs[lo].at) = d THEN allocs[lo].amount ELSE 0)
    ELSE SumOnDay(allocs, lo, (lo + hi) \div 2, d)
         + SumOnDay(allocs, ((lo + hi) \div 2) + 1, hi, d)

\* what a record allocates to calendar day d
DayShare(tx, d) ==
    IF Months(tx) = 1
    THEN (IF tx.date = d THEN TotalAmount(tx) ELSE 0)
    ELSE SumOnDay(Allocations(tx), 1, Len(Allocations(tx)), d)

C10_SameDayEntry ==
    (/\ pc = "done"
     /\ Len(transactions) = 2
     /\ WellFormed(transactions[1])
     /\ WellFormed(transactions[2])
     /\ transactions[1].category_type = "INCOME"
     /\ transactions[2].category_type = "EXPENSE")
    => \A d \in startDateStr..endDateStr :
          (DayShare(transactions[1], d) > 0 /\ DayShare(transactions[2], d) > 0)
          => /\ d \in DOMAIN stats.dailyStats
             /\ Entry(stats, d).income = DayShare(transactions[1], d)
             /\ Entry(stats, d).expense = DayShare(transactions[2], d)
             /\ Entry(stats, d).balance
                  = DayShare(transactions[1], d) - DayShare(transactions[2], d)

----------------------------------------------------------------------------
(* C11: a record anchored after the window contributes nothing. While the *)
(* forEach callback is at a record whose date is later than the window's  *)
(* end, no step changes totalIncome, totalExpense, balance or dailyStats,  *)
(* so the result is the one the call returns without that record.          *)

AfterWindow(tx) == tx.date >= 0 /\ tx.date > endDateStr

C11_AfterWindowNothing ==
    [][(pc = "forEach" /\ idx <= Len(transactions)
          /\ AfterWindow(transactions[idx])) => stats' = stats]_vars

\* An amortized record after the window has been walked through, behind a
\* record that did contribute.
C11_Witness ==
    /\ pc = "forEach" /\ idx = 3 /\ i = 0
    /\ startDateStr <= endDateStr
    /\ AfterWindow(LastTx) /\ ValidMulti(LastTx)
    /\ stats.totalExpense > 0
    /\ DOMAIN stats.dailyStats # {}

----------------------------------------------------------------------------
(* C12: empty input. The call on an empty record list returns             *)
(* totalIncome = 0, totalExpense = 0, balance = 0 and a dailyStats map     *)
(* without keys, whatever the window (reversed windows included).          *)

C12_EmptyInput ==
    (pc = "done" /\ Len(transactions) = 0) =>
        /\ stats.totalIncome = 0
        /\ stats.totalExpense = 0
        /\ stats.balance = 0
        /\ DOMAIN stats.dailyStats = {}

C12_Witness ==
    /\ pc = "done" /\ Len(transactions) = 0
    /\ tz # 0 /\ startDateStr < endDateStr

----------------------------------------------------------------------------
(* The same call made twice: when the first call has returned, its caller *)
(* keeps the result and calls again with the same record list and window.  *)
(* Each call builds its result object anew (line 35); the module has no    *)
(* state outside the function.                                             *)

ReusedStats(earlier) == earlier

FreshStats(earlier) == ZeroStats

RepeatLists ==
    {l \in TxLists : \A k \in 1..Len(l) : WellFormed(l[k])}

InitTwice ==
    /\ tz \in TZOffsets
    /\ transactions \in RepeatLists
    /\ \E w \in Windows : startDateStr = w[1] /\ endDateStr = w[2]
    /\ stats = ZeroStats
    /\ idx = 1
    /\ i = 0
    /\ pc = "forEach"
    /\ call = 1
    /\ previous = ZeroStats
    /\ currentDate = 0
    /\ catMap = <<>>
    /\ db = <<>>
    /\ RestIdle

SecondCall ==
    /\ pc = "done"
    /\ call = 1
    /\ call' = 2
    /\ previous' = stats
    /\ stats' = FreshStats(stats)
    /\ idx' = 1
    /\ i' = 0
    /\ pc' = "forEach"
    /\ UNCHANGED <<tz, transactions, startDateStr, endDateStr, currentDate, catMap, db, rest>>

NextTwice == SingleOccurrence \/ Bucket \/ EndAmortize \/ Return \/ SecondCall

SpecTwice == InitTwice /\ [][NextTwice]_vars

----------------------------------------------------------------------------
(* C13: idempotence. A second call with the same record list and the same *)
(* window returns the same totalIncome, totalExpense, balance and          *)
(* dailyStats as the first: nothing the first call left behind reaches     *)
(* the second.                                                             *)

----------------------------------------------------------------------------
(* C17: frame. No step of a call changes its inputs: the record list, and *)
(* each record's amount, date, months_covered and category_type, and the   *)
(* window strings stay what they were.  A call writes only to the result   *)
(* object it created: the result an earlier call returned is not changed   *)
(* by the steps of a later call over the same inputs.                      *)

C17_InputsUntouched ==
    [][/\ transactions' = transactions
       /\ startDateStr' = startDateStr
       /\ endDateStr' = endDateStr
       /\ (call' = call => previous' = previous)]_vars

\* the second call has returned over a list holding a record without
\* months_covered (the default of line 60 applied) and an amortized one
C17_Witness ==
    /\ pc = "done" /\ call = 2
    /\ \E k \in 1..Len(transactions) : ~HasMonths(transactions[k])
    /\ \E k \in 1..Len(transactions) : ValidMulti(transactions[k])
    /\ previous.totalIncome > 0
    /\ DOMAIN previous.dailyStats # {}

----------------------------------------------------------------------------
(* The Analysis view.  loadCharts takes the displayed month from           *)
(* currentDate, queries the rows dated up to the month's end, hands them   *)
(* to calculatePeriodStats and then derives the per-category breakdown     *)
(* with its own overlap-ratio rule; changeMonth moves currentDate.         *)

\* new Date(year, month, day): local midnight of a calendar day
LocalDate(y, m, d) == MakeDay(y, m, d) * OneDay - tz

MonthStart == LocalDate(YearOf(LocalDay(currentDate)), MonthOf(LocalDay(currentDate)), 1)

MonthEnd == LocalDate(YearOf(LocalDay(currentDate)), MonthOf(LocalDay(currentDate)) + 1, 0)

\* Math.max / Math.min of two getTime() values
MathMax(a, b) == IF IsNaN(a) THEN a ELSE IF IsNaN(b) THEN b ELSE IF a > b THEN a ELSE b

MathMin(a, b) == IF IsNaN(a) THEN a ELSE IF IsNaN(b) THEN b ELSE IF a < b THEN a ELSE b

RECURSIVE GCD(_, _)
GCD(a, b) == IF b = 0 THEN a ELSE GCD(b, a % b)

Abs(x) == IF x < 0 THEN 0 - x ELSE x

\* the quotient num / den of two numbers, den # 0
Frac(num, den) ==
    LET g == GCD(Abs(num), Abs(den))
        sg == IF den < 0 THEN 0 - 1 ELSE 1
    IN  <<sg * (num \div g), sg * (den \div g)>>

FracAdd(a, b) == Frac(a[1] * b[2] + b[1] * a[2], a[2] * b[2])

\* ORDER BY t.date ASC; rows of equal date stay in the order of their rowid
RECURSIVE OrderByDate(_)
OrderByDate(rows) ==
    IF Len(rows) <= 1 THEN rows
    ELSE LET last == rows[Len(rows)]
             sorted == OrderByDate(SubSeq(rows, 1, Len(rows) - 1))
         IN  SelectSeq(sorted, LAMBDA tx : tx.date <= last.date) \o <<last>>
             \o SelectSeq(sorted, LAMBDA tx : tx.date > last.date)

\* a query that also applied its first parameter
GetTransactionsInRangeBetween(start, end) ==
    OrderByDate(SelectSeq(db, LAMBDA tx : tx.date >= start /\ tx.date <= end))

\* SELECT t.*, c.name, c.type FROM transactions t JOIN categories c ...
\* WHERE t.date <= end ORDER BY t.date ASC; the first parameter is unused
GetTransactionsInRange(start, end) ==
    OrderByDate(SelectSeq(db, LAMBDA tx : tx.date <= end))

\* the '2000-01-01' the views pass as the first parameter: a date string
\* before every stored date
Earliest == ISO(2023, 1, 1)

EffectiveAmountByBuckets(tx, start, end) ==
    LET al == Allocations(tx)
    IN  Frac(SumInWindow(al, 1, Len(al)), Scale)

EffectiveAmount(tx, start, end) ==
    IF Months(tx) = 1
    THEN (IF tx.date >= ToISODate(start) /\ tx.date <= ToISODate(end)
          THEN <<tx.amount, 1>> ELSE <<0, 1>>)
    ELSE LET txStart == ParseDate(tx.date)
             txEnd == AddMonths(txStart, Months(tx))
             overlapStart == MathMax(txStart, start)
             overlapEnd == MathMin(txEnd, end)
         IN  IF DateLT(overlapStart, overlapEnd)
             THEN Frac((overlapEnd - overlapStart) * tx.amount, txEnd - txStart)
             ELSE <<0, 1>>

RECURSIVE CategoryBreakdown(_, _, _)
CategoryBreakdown(map, allTxs, k) ==
    IF k > Len(allTxs) THEN map
    ELSE LET tx == allTxs[k]
             effectiveAmount == EffectiveAmount(tx, MonthStart, MonthEnd)
             old == IF tx.category_id \in DOMAIN map THEN map[tx.category_id]
                    ELSE [value |-> <<0, 1>>, type |-> tx.category_type]
             new == [old EXCEPT !.value = FracAdd(old.value, effectiveAmount)]
         IN  IF effectiveAmount[1] > 0
             THEN CategoryBreakdown(
                    [c \in DOMAIN map \cup {tx.category_id} |->
                        IF c = tx.category_id THEN new ELSE map[c]],
                    allTxs, k + 1)
             ELSE CategoryBreakdown(map, allTxs, k + 1)

StoredTx ==
    [category_id : {1}, category_type : FlowTypes, amount : {1},
     date : TxDates, months_covered : {1, MaxMonths}]

Tables == {<<>>} \cup {<<tx>> : tx \in StoredTx}

\* new Date() when the view is mounted
CurrentDates == {ISO(2024, 1, 15) * OneDay + 12 * 60, ISO(2024, 1, 31) * OneDay + 12 * 60}

\* the months the view is moved through
NavFrom == ISO(2023, 12, 1) * OneDay
NavTo == ISO(2024, 6, 1) * OneDay

InitAnalysis ==
    /\ tz \in TZOffsets
    /\ db \in Tables
    /\ currentDate \in CurrentDates
    /\ catMap = <<>>
    /\ transactions = <<>>
    /\ startDateStr = 0
    /\ endDateStr = 0
    /\ stats = ZeroStats
    /\ idx = 1
    /\ i = 0
    /\ pc = "idle"
    /\ call = 1
    /\ previous = ZeroStats
    /\ RestIdle

LoadCharts ==
    /\ pc = "idle"
    /\ startDateStr' = ToISODate(MonthStart)
    /\ endDateStr' = ToISODate(MonthEnd)
    /\ transactions' = GetTransactionsInRange(Earliest, ToISODate(MonthEnd))
    /\ stats' = ZeroStats
    /\ idx' = 1
    /\ i' = 0
    /\ pc' = "forEach"
    /\ UNCHANGED <<tz, call, previous, currentDate, catMap, db, rest>>

Breakdown ==
    /\ pc = "done"
    /\ catMap' = CategoryBreakdown(<<>>, transactions, 1)
    /\ pc' = "charts"
    /\ UNCHANGED <<tz, transactions, startDateStr, endDateStr, stats, idx, i,
                   call, previous, currentDate, db, rest>>

ChangeMonth(delta) ==
    /\ pc = "charts"
    /\ NavFrom <= AddMonths(currentDate, delta)
    /\ AddMonths(currentDate, delta) < NavTo
    /\ currentDate' = AddMonths(currentDate, delta)
    /\ pc' = "idle"
    /\ UNCHANGED <<tz, transactions, startDateStr, endDateStr, stats, idx, i,
                   call, previous, catMap, db, rest>>

NextAnalysis ==
    \/ LoadCharts
    \/ SingleOccurrence \/ Bucket \/ EndAmortize \/ Return
    \/ Breakdown
    \/ ChangeMonth(0 - 1) \/ ChangeMonth(1)

SpecAnalysis == InitAnalysis /\ [][NextAnalysis]_vars

----------------------------------------------------------------------------
(* C14: the category breakdown and calculatePeriodStats disagree.          *)
(* As claimed: for one amortized record and the displayed month, the       *)
(* overlap-ratio value of the breakdown and the total of                   *)
(* calculatePeriodStats differ whenever the record's buckets are not all    *)
(* of the same length.                                                      *)
(* As it holds: they differ when the displayed month is the month of the   *)
(* record's date and that date is not the 1st; when the displayed month    *)
(* starts after the day the coverage ends, both are 0, so buckets of       *)
(* different lengths do not by themselves make the two differ.             *)

Charted(tx) ==
    /\ pc = "charts"
    /\ transactions = <<tx>>
    /\ ValidMulti(tx)

LengthsVary(tx) ==
    \E n1, n2 \in 0..(Months(tx) - 1) :
        DaysInBucket(TxDate(tx), n1) # DaysInBucket(TxDate(tx), n2)

\* the record's total in the result of calculatePeriodStats, in currency units
EngineTotal(tx) == Frac(TotalOf(stats, tx), Scale)

\* the record's value in the category breakdown
BreakdownValue(tx) ==
    IF tx.category_id \in DOMAIN catMap THEN catMap[tx.category_id].value ELSE <<0, 1>>

DisplayedFirstDay == MakeDay(YearOf(LocalDay(currentDate)), MonthOf(LocalDay(currentDate)), 1)

InAnchorMonth(tx) ==
    /\ YearOf(tx.date) = YearOf(LocalDay(currentDate))
    /\ MonthOf(tx.date) = MonthOf(LocalDay(currentDate))
    /\ DateOf(tx.date) >= 2

\* the calendar day on which the coverage ends (exclusive)
CoverageEndDay(tx) == MakeDay(YearOf(tx.date), MonthOf(tx.date) + Months(tx), DateOf(tx.date))

----------------------------------------------------------------------------
(* The worked scenarios: a yearly prepaid expense of 1200 paid on          *)
(* 2024-01-15, alone or beside a salary of 3000 received on 2024-03-05,    *)
(* evaluated over January, February and March 2024.                        *)

Prepaid ==
    [category_type |-> "EXPENSE", amount |-> 1200, date |-> ISO(2024, 1, 15),
     months_covered |-> 12]

Salary ==
    [category_type |-> "INCOME", amount |-> 3000, date |-> ISO(2024, 3, 5),
     months_covered |-> 1]

ScenarioLists == {<<Prepaid>>, <<Prepaid, Salary>>, <<Salary, Prepaid>>}

January == <<ISO(2024, 1, 1), ISO(2024, 1, 31)>>
February == <<ISO(2024, 2, 1), ISO(2024, 2, 29)>>
March == <<ISO(2024, 3, 1), ISO(2024, 3, 31)>>

InitScenario ==
    /\ tz \in TZOffsets
    /\ transactions \in ScenarioLists
    /\ \E w \in {January, February, March} : startDateStr = w[1] /\ endDateStr = w[2]
    /\ stats = ZeroStats
    /\ idx = 1
    /\ i = 0
    /\ pc = "forEach"
    /\ call = 1
    /\ previous = ZeroStats
    /\ currentDate = 0
    /\ catMap = <<>>
    /\ db = <<>>
    /\ RestIdle

SpecScenario == InitScenario /\ [][Next]_vars

\* the positions, in a record's allocations, of those inside the window
InWindowAllocs(al) == {j \in 1..Len(al) : InWindow(al[j].at)}

Returned(list, w) ==
    /\ pc = "done"
    /\ transactions = list
    /\ startDateStr = w[1] /\ endDateStr = w[2]

----------------------------------------------------------------------------
(* C15: scenario 1. For the single record {EXPENSE, 1200, 2024-01-15,      *)
(* 12 months} and the window 2024-01-01 .. 2024-01-31, the days that       *)
(* receive an allocation are exactly the 17 days 2024-01-15 .. 2024-01-31, *)
(* each allocation is 100/31, dailyStats holds 17 entries of 100/31        *)
(* expense, totalExpense = 17 * 100/31 and totalIncome = 0.                *)

----------------------------------------------------------------------------
(* C16: scenario 2. For the same record and the window 2024-02-01 ..       *)
(* 2024-02-29, the days Feb 1-14 are allocated by the first bucket at      *)
(* 100/31 each and the days Feb 15-29 by the second bucket at 100/29       *)
(* each, so totalExpense = 14 * 100/31 + 15 * 100/29.                      *)

----------------------------------------------------------------------------
(* Month-end anchors: one record dated the 29th, 30th or 31st (or the last *)
(* day of February), covering 1 to MaxMonths + 1 months, inside a window   *)
(* that holds its whole coverage.  The amount is one that every bucket of  *)
(* these records divides exactly.                                          *)

AnchorDates ==
    {ISO(2023, 1, 31), ISO(2024, 1, 29), ISO(2024, 1, 30), ISO(2024, 1, 31),
     ISO(2024, 2, 29), ISO(2024, 3, 31), ISO(2024, 8, 31), ISO(2024, 12, 31)}

AnchorTx ==
    [category_type : {"EXPENSE"}, amount : {14}, date : AnchorDates,
     months_covered : 1..(MaxMonths + 1)]

WideWindow == <<ISO(2023, 1, 15), ISO(2025, 12, 31)>>

InitBuckets ==
    /\ tz \in TZOffsets
    /\ transactions \in {<<tx>> : tx \in AnchorTx}
    /\ startDateStr = WideWindow[1]
    /\ endDateStr = WideWindow[2]
    /\ stats = ZeroStats
    /\ idx = 1
    /\ i = 0
    /\ pc = "forEach"
    /\ call = 1
    /\ previous = ZeroStats
    /\ currentDate = 0
    /\ catMap = <<>>
    /\ db = <<>>
    /\ RestIdle

SpecBuckets == InitBuckets /\ [][Next]_vars

----------------------------------------------------------------------------
(* C18: the N buckets of an amortized record are contiguous and pairwise   *)
(* disjoint, for any anchor date, the 29th, 30th and 31st included: bucket *)
(* n+1 starts where bucket n ends; the allocations walk the days from the  *)
(* anchor to anchor + N months one by one, none twice and none skipped, so *)
(* their number is the number of days of the coverage span, and as many    *)
(* days are entered in dailyStats.                                         *)

BucketsContiguous(tx) ==
    LET al == Allocations(tx)
        N == Months(tx)
        anchor == TxDate(tx)
    IN  /\ \A n \in 0..(N - 2) : BucketStart(anchor, n + 1) = BucketEnd(anchor, n)
        /\ Len(al) = SpanDays(tx)
        /\ al[1].at = anchor /\ al[1].bucket = 0
        /\ \A j \in 1..(Len(al) - 1) :
              /\ al[j + 1].at = al[j].at + OneDay
              /\ \/ al[j + 1].bucket = al[j].bucket
                 \/ /\ al[j + 1].bucket = al[j].bucket + 1
                    /\ al[j + 1].at = BucketStart(anchor, al[j + 1].bucket)
        /\ al[Len(al)].at + OneDay = AddMonths(anchor, N)
        /\ al[Len(al)].bucket = N - 1

----------------------------------------------------------------------------
(* C19: for a valid amortized record (coverageMonths >= 2, any anchor      *)
(* date), every bucket the month loop is about to scan has between 28 and  *)
(* 31 days; daysInBucket is never <= 0, so the skip of line 94 is not      *)
(* taken.                                                                  *)

C19_BucketLength ==
    (pc = "forEach" /\ idx <= Len(transactions) /\ ValidMulti(transactions[idx])
       /\ i < Months(transactions[idx])) =>
        /\ DaysInBucket(TxDate(transactions[idx]), i) >= 28
        /\ DaysInBucket(TxDate(transactions[idx]), i) <= 31

\* the loop stands before the February 2023 bucket, of 28 days
C19_Witness ==
    /\ pc = "forEach" /\ idx = 1 /\ i = 1
    /\ ValidMulti(transactions[1])
    /\ transactions[1].date = ISO(2023, 1, 31)
    /\ DaysInBucket(TxDate(transactions[1]), i) = 28
    /\ DOMAIN stats.dailyStats # {}

----------------------------------------------------------------------------
(* C20: allocations are routed by flow type only. No step taken for an     *)
(* INCOME record changes totalExpense or the expense of any day of         *)
(* dailyStats, and no step taken for an EXPENSE record changes totalIncome *)
(* or the income of any day, in the single-occurrence branch and in the    *)
(* amortized branch alike.                                                 *)

OtherSideKept(st, st2, total, field) ==
    /\ st2[total] = st[total]
    /\ \A d \in DOMAIN st2.dailyStats : st2.dailyStats[d][field] = Entry(st, d)[field]

C20_RoutedByType ==
    [][(pc = "forEach" /\ idx <= Len(transactions)) =>
          /\ transactions[idx].category_type = "INCOME" =>
                 OtherSideKept(stats, stats', "totalExpense", "expense")
          /\ transactions[idx].category_type = "EXPENSE" =>
                 OtherSideKept(stats, stats', "totalIncome", "income")]_vars

\* an amortized EXPENSE record and then a single INCOME record have both
\* been entered, and the call has returned
C20_Witness ==
    /\ pc = "done" /\ Len(transactions) = 2
    /\ transactions[1].category_type = "EXPENSE" /\ ValidMulti(transactions[1])
    /\ transactions[2].category_type = "INCOME" /\ Months(transactions[2]) = 1
    /\ stats.totalExpense > 0 /\ stats.totalIncome > 0
    /\ \E d \in DOMAIN stats.dailyStats :
          stats.dailyStats[d].income > 0 /\ stats.dailyStats[d].expense > 0

----------------------------------------------------------------------------
(* The query behind both views, called with any pair of arguments.          *)

QueryDates == {ISO(2023, 12, 20), ISO(2024, 1, 15), ISO(2024, 2, 10)}

QueryRows ==
    [category_id : {1}, category_type : FlowTypes, amount : {1},
     date : QueryDates, months_covered : {1, MaxMonths}]

QueryTables == UNION {[1..n -> QueryRows] : n \in 0..MaxTx}

QueryStarts == {Earliest, ISO(2024, 1, 1), ISO(2024, 2, 1)}
QueryEnds == {ISO(2024, 1, 31), ISO(2024, 2, 29)}

InitQuery ==
    /\ tz \in TZOffsets
    /\ db \in QueryTables
    /\ transactions = <<>>
    /\ startDateStr = 0
    /\ endDateStr = 0
    /\ stats = ZeroStats
    /\ idx = 1
    /\ i = 0
    /\ pc = "idle"
    /\ call = 1
    /\ previous = ZeroStats
    /\ currentDate = 0
    /\ catMap = <<>>
    /\ RestIdle

Query(start, end) ==
    /\ pc \in {"idle", "queried"}
    /\ startDateStr' = start
    /\ endDateStr' = end
    /\ transactions' = GetTransactionsInRange(start, end)
    /\ pc' = "queried"
    /\ UNCHANGED <<tz, stats, idx, i, caller>>

NextQuery == \E start \in QueryStarts, end \in QueryEnds : Query(start, end)

SpecQuery == InitQuery /\ [][NextQuery]_vars

\* how many times a row occurs in a list of rows
Occurrences(rows, row) == Cardinality({k \in DOMAIN rows : rows[k] = row})

\* the calendar days a record covers reach into [start, end]
SpanOverlaps(tx, start, end) ==
    /\ tx.date <= end
    /\ IF Months(tx) = 1 THEN tx.date >= start ELSE CoverageEndDay(tx) >= start

(* C21: getTransactionsInRange(start, end) returns every stored             *)
(* transaction whose date is on or before end, whatever start is, in date   *)
(* order, and nothing else; so no record whose coverage span overlaps       *)
(* [start, end] is withheld.                                                *)
C21_NothingWithheld ==
    pc = "queried" =>
        /\ \A row \in QueryRows :
              Occurrences(transactions, row) =
                  IF row.date <= endDateStr THEN Occurrences(db, row) ELSE 0
        /\ \A k \in 1..(Len(transactions) - 1) :
              transactions[k].date <= transactions[k + 1].date
        /\ \A k \in DOMAIN db :
              SpanOverlaps(db[k], startDateStr, endDateStr) =>
                  Occurrences(transactions, db[k]) >= 1

\* a record dated before start, whose span reaches into the window, is
\* returned while a record dated after end is not
C21_Witness ==
    /\ pc = "queried"
    /\ \E k \in DOMAIN db :
          /\ db[k].date < startDateStr
          /\ Months(db[k]) > 1
          /\ SpanOverlaps(db[k], startDateStr, endDateStr)
          /\ Occurrences(transactions, db[k]) >= 1
    /\ \E k \in DOMAIN db : db[k].date > endDateStr
    /\ Len(transactions) < Len(db)

----------------------------------------------------------------------------
(* The Dashboard: range modes, the range of dates shown and navigation.     *)

MaxNav == 3

\* d.getDay(): 0 is Sunday (2023-01-01 was a Sunday)
GetDay(t) == LocalDay(t) % 7

\* d.getDate(), d.getMonth(), d.getFullYear()
GetDate(t) == DateOf(LocalDay(t))
GetMonth(t) == MonthOf(LocalDay(t))
GetFullYear(t) == YearOf(LocalDay(t))

\* the setters of local fields: the time of day is kept, overflowing months
\* and days are carried over
SetFields(t, y, m, d) == MakeDay(y, m, d) * OneDay + ((t + tz) % OneDay) - tz

SetDate(t, d) == SetFields(t, GetFullYear(t), GetMonth(t), d)

SetMonth(t, m) == SetFields(t, GetFullYear(t), m, GetDate(t))

SetFullYear(t, y) == SetFields(t, y, GetMonth(t), GetDate(t))

RangeTypes == {"DAILY", "WEEKLY", "MONTHLY", "YEARLY"}

\* a weekly range whose start is not adjusted when the day is a Sunday
GetRangeDatesSundayFirst(cur, type) ==
    LET diff == GetDate(cur) - GetDay(cur) + 1
    IN  IF type = "WEEKLY"
        THEN [start |-> SetDate(cur, diff), end |-> SetDate(cur, diff + 6)]
        ELSE [start |-> cur, end |-> cur]

GetRangeDates(cur, type) ==
    IF type = "WEEKLY"
    THEN LET day == GetDay(cur)
             diff == GetDate(cur) - day + (IF day = 0 THEN 0 - 6 ELSE 1)
         IN  [start |-> SetDate(cur, diff), end |-> SetDate(cur, diff + 6)]
    ELSE IF type = "MONTHLY"
    THEN [start |-> SetDate(cur, 1),
          end |-> SetDate(SetMonth(cur, GetMonth(cur) + 1), 0)]
    ELSE IF type = "YEARLY"
    THEN [start |-> SetFields(cur, GetFullYear(cur), 0, 1),
          end |-> SetFields(cur, GetFullYear(cur), 11, 31)]
    ELSE [start |-> cur, end |-> cur]

\* the table the Dashboard reads
DashTables ==
    {<<>>,
     <<[category_id |-> 1, category_type |-> "INCOME", amount |-> 1,
        date |-> ISO(2024, 1, 15), months_covered |-> 1],
       [category_id |-> 1, category_type |-> "EXPENSE", amount |-> 1,
        date |-> ISO(2024, 1, 31), months_covered |-> MaxMonths]>>}

\* new Date() when the Dashboard is mounted
DashDates == CurrentDates \cup {ISO(2025, 1, 5) * OneDay + 12 * 60}

\* the dates the Dashboard is moved through
DashFrom == ISO(2024, 1, 1) * OneDay
DashTo == ISO(2026, 1, 1) * OneDay

InitDashboard ==
    /\ tz \in TZOffsets
    /\ db \in DashTables
    /\ currentDate \in DashDates
    /\ rangeType = "MONTHLY"
    /\ range = <<>>
    /\ split = <<>>
    /\ conn = <<>>
    /\ vault = <<>>
    /\ catMap = <<>>
    /\ transactions = <<>>
    /\ startDateStr = 0
    /\ endDateStr = 0
    /\ stats = ZeroStats
    /\ idx = 1
    /\ i = 0
    /\ pc = "idle"
    /\ call = 1
    /\ previous = ZeroStats

\* loadData, run by the effect on currentDate and rangeType, up to the call
\* of calculatePeriodStats
LoadData ==
    /\ pc = "idle"
    /\ range' = GetRangeDates(currentDate, rangeType)
    /\ startDateStr' = ToISODate(range'.start)
    /\ endDateStr' = ToISODate(range'.end)
    /\ transactions' = GetTransactionsInRange(Earliest, endDateStr')
    /\ stats' = ZeroStats
    /\ idx' = 1
    /\ i' = 0
    /\ pc' = "forEach"
    /\ UNCHANGED <<tz, call, previous, currentDate, catMap, db,
                   split, rangeType, conn, vault>>

\* the date handlePrev (dir = -1) or handleNext (dir = 1) moves to
Moved(cur, type, dir) ==
    IF type = "DAILY" THEN SetDate(cur, GetDate(cur) + dir)
    ELSE IF type = "WEEKLY" THEN SetDate(cur, GetDate(cur) + 7 * dir)
    ELSE IF type = "MONTHLY" THEN SetMonth(cur, GetMonth(cur) + dir)
    ELSE SetFullYear(cur, GetFullYear(cur) + dir)

Navigate(dir) ==
    /\ pc = "done"
    /\ call <= MaxNav
    /\ DashFrom <= Moved(currentDate, rangeType, dir) + tz
    /\ Moved(currentDate, rangeType, dir) + tz < DashTo
    /\ currentDate' = Moved(currentDate, rangeType, dir)
    /\ call' = call + 1
    /\ pc' = "idle"
    /\ UNCHANGED <<tz, transactions, startDateStr, endDateStr, stats, idx, i,
                   previous, catMap, db, rest>>

HandlePrev == Navigate(0 - 1)

HandleNext == Navigate(1)

SetRangeType(t) ==
    /\ pc = "done"
    /\ t # rangeType
    /\ rangeType' = t
    /\ pc' = "idle"
    /\ UNCHANGED <<tz, transactions, startDateStr, endDateStr, stats, idx, i,
                   call, previous, currentDate, catMap, db,
                   split, range, conn, vault>>

NextDashboard ==
    \/ LoadData
    \/ SingleOccurrence \/ Bucket \/ EndAmortize \/ Return
    \/ HandlePrev \/ HandleNext
    \/ \E t \in RangeTypes : SetRangeType(t)

SpecDashboard == InitDashboard /\ [][NextDashboard]_vars

\* the range on display is the one computed from currentDate and rangeType
Shown(type) == pc \in {"forEach", "done"} /\ rangeType = type

(* C22: in WEEKLY mode getRangeDates returns the Monday and the Sunday of   *)
(* the week that contains currentDate: start is a Monday, end is six days   *)
(* after start, and start <= currentDate <= end, also when currentDate is a *)
(* Sunday and when the week crosses a month or year boundary.               *)
C22_WeekOfCurrentDate ==
    Shown("WEEKLY") =>
        /\ GetDay(range.start) = 1
        /\ GetDay(range.end) = 0
        /\ range.end = range.start + 6 * OneDay
        /\ range.start <= currentDate
        /\ currentDate <= range.end

\* currentDate is a Sunday whose week began in the year before
C22_Witness ==
    /\ Shown("WEEKLY")
    /\ GetDay(currentDate) = 0
    /\ GetFullYear(range.start) < GetFullYear(range.end)

\* the calendar month of a Date, counted from year 0
MonthIndex(t) == GetFullYear(t) * 12 + GetMonth(t)

(* C26: in MONTHLY mode getRangeDates returns the first and the last day of *)
(* the calendar month of currentDate itself, whatever the day of the month  *)
(* of currentDate.                                                          *)
C26_MonthOfCurrentDate ==
    Shown("MONTHLY") =>
        /\ MonthIndex(range.start) = MonthIndex(currentDate)
        /\ GetDate(range.start) = 1
        /\ MonthIndex(range.end) = MonthIndex(currentDate)
        /\ GetDate(range.end) =
               DaysInMonth(GetFullYear(currentDate), GetMonth(currentDate))

(* C27: in MONTHLY mode handleNext and handlePrev move currentDate to the   *)
(* next and the previous calendar month, whatever the day of the month.     *)
C27_OneMonthPerStep ==
    [][(pc = "done" /\ rangeType = "MONTHLY" /\ currentDate' # currentDate) =>
          MonthIndex(currentDate') \in
              {MonthIndex(currentDate) - 1, MonthIndex(currentDate) + 1}]_vars

----------------------------------------------------------------------------
(* One record aggregated over a window that holds its whole coverage span.  *)

SpanDates == {ISO(2024, 1, 15), ISO(2024, 1, 31), ISO(2024, 2, 1)}

SpanTx ==
    [category_type : FlowTypes, amount : {14}, date : SpanDates,
     months_covered : 1..(MaxMonths + 1)]

\* the window of exactly the covered days [anchorDate, anchorDate + N months)
\* and a window with room on both sides
SpanWindows(tx) ==
    {<<tx.date, CoverageEndDay(tx) - 1>>, <<ISO(2024, 1, 1), ISO(2024, 12, 31)>>}

InitSpan ==
    /\ tz \in TZOffsets
    /\ transactions \in {<<tx>> : tx \in SpanTx}
    /\ \E w \in SpanWindows(transactions[1]) :
          startDateStr = w[1] /\ endDateStr = w[2]
    /\ stats = ZeroStats
    /\ idx = 1
    /\ i = 0
    /\ pc = "forEach"
    /\ call = 1
    /\ previous = ZeroStats
    /\ currentDate = 0
    /\ catMap = <<>>
    /\ db = <<>>
    /\ RestIdle

SpecSpan == InitSpan /\ [][Next]_vars

\* the window holds every day of [anchorDate, anchorDate + N months)
SpanInWindow(tx) ==
    startDateStr <= tx.date /\ CoverageEndDay(tx) - 1 <= endDateStr

(* C23: when the window contains the whole coverage span                    *)
(* [anchorDate, anchorDate + N months) of a record, N >= 1, the record      *)
(* contributes exactly its amount to the total of its type.                 *)
C23_FullAmount ==
    (pc = "done" /\ SpanInWindow(transactions[1])) =>
        TotalOf(stats, transactions[1]) = transactions[1].amount * Scale

----------------------------------------------------------------------------
(* A caller that aggregates the two parts [a, b] and [b + 1, c] of a        *)
(* window and then the whole window [a, c] over the same records.           *)

\* <<a, b, c>> with a <= b < c
Splits ==
    {<<ISO(2024, 1, 10), ISO(2024, 1, 15), ISO(2024, 1, 16)>>,
     <<ISO(2024, 1, 10), ISO(2024, 1, 15), ISO(2024, 2, 20)>>,
     <<ISO(2024, 1, 15), ISO(2024, 1, 31), ISO(2024, 2, 20)>>}

\* the window of the n-th call
SplitWindow(s, n) ==
    IF n = 1 THEN <<s[1], s[2]>>
    ELSE IF n = 2 THEN <<s[2] + 1, s[3]>>
    ELSE <<s[1], s[3]>>

InitSplit ==
    /\ tz \in TZOffsets
    /\ transactions \in RepeatLists
    /\ \E s \in Splits :
          /\ split = [abc |-> s, results |-> <<>>]
          /\ startDateStr = SplitWindow(s, 1)[1]
          /\ endDateStr = SplitWindow(s, 1)[2]
    /\ stats = ZeroStats
    /\ idx = 1
    /\ i = 0
    /\ pc = "forEach"
    /\ call = 1
    /\ previous = ZeroStats
    /\ currentDate = 0
    /\ catMap = <<>>
    /\ db = <<>>
    /\ rangeType = "MONTHLY"
    /\ range = <<>>
    /\ conn = <<>>
    /\ vault = <<>>

\* the caller keeps the result and calls again with the next window
NextWindow ==
    /\ pc = "done"
    /\ call < 3
    /\ split' = [split EXCEPT !.results = Append(@, stats)]
    /\ call' = call + 1
    /\ startDateStr' = SplitWindow(split.abc, call + 1)[1]
    /\ endDateStr' = SplitWindow(split.abc, call + 1)[2]
    /\ stats' = ZeroStats
    /\ idx' = 1
    /\ i' = 0
    /\ pc' = "forEach"
    /\ UNCHANGED <<tz, transactions, previous, currentDate, catMap, db,
                   rangeType, range, conn, vault>>

NextSplit == SingleOccurrence \/ Bucket \/ EndAmortize \/ Return \/ NextWindow

SpecSplit == InitSplit /\ [][NextSplit]_vars

\* the results for [a, b], for [b + 1, c] and for [a, c] are at hand
SplitDone == pc = "done" /\ call = 3

\* the dailyStats entry of a result under a key, zero when there is none
DayOf(st, key) == IF key \in DOMAIN st.dailyStats THEN st.dailyStats[key] ELSE ZeroDay

\* the totals of the whole window are the sums of those of the parts
TotalsAdd ==
    LET left == split.results[1]
        right == split.results[2]
    IN  /\ stats.totalIncome = left.totalIncome + right.totalIncome
        /\ stats.totalExpense = left.totalExpense + right.totalExpense
        /\ stats.balance = left.balance + right.balance

\* the dailyStats of the whole window are those of the parts put together
DaysMerge ==
    LET left == split.results[1]
        right == split.results[2]
    IN  /\ DOMAIN stats.dailyStats = DOMAIN left.dailyStats \cup DOMAIN right.dailyStats
        /\ \A key \in DOMAIN stats.dailyStats :
              /\ stats.dailyStats[key].income = DayOf(left, key).income + DayOf(right, key).income
              /\ stats.dailyStats[key].expense = DayOf(left, key).expense + DayOf(right, key).expense

\* no day has an entry in both parts
DaysDisjoint ==
    DOMAIN split.results[1].dailyStats \cap DOMAIN split.results[2].dailyStats = {}

(* C24: for a <= b < c the totals for [a, c] are the sums of the totals for *)
(* [a, b] and [b + 1, c], and the dailyStats of [a, c] are the disjoint     *)
(* union of the dailyStats of the two parts.                                *)
C24_WindowAdditivity ==
    SplitDone => (TotalsAdd /\ DaysMerge /\ DaysDisjoint)

----------------------------------------------------------------------------
\* the record with months_covered written out as 1
WithOneMonth(tx) ==
    [f \in DOMAIN tx \cup {"months_covered"} |->
        IF f = "months_covered" THEN 1 ELSE tx[f]]

\* the forEach callback is at a record that has no months_covered
AtAbsent ==
    /\ pc = "forEach"
    /\ idx <= Len(transactions)
    /\ "months_covered" \notin DOMAIN transactions[idx]

(* C25: a record without months_covered is treated exactly like the same   *)
(* record with months_covered = 1: the step taken for it is the             *)
(* single-occurrence step of that record, and no bucket is scanned.         *)
C25_AbsentIsOneMonth ==
    [][AtAbsent =>
          /\ Months(WithOneMonth(transactions[idx])) = 1
          /\ stats' = SingleStats(stats, WithOneMonth(transactions[idx]))
          /\ idx' = idx + 1
          /\ i' = i]_vars

\* a record without months_covered, dated inside the window, was counted
C25_Witness ==
    /\ pc = "forEach"
    /\ idx = 2
    /\ "months_covered" \notin DOMAIN transactions[1]
    /\ DateInWindow(transactions[1].date)
    /\ stats.totalIncome = transactions[1].amount * Scale

----------------------------------------------------------------------------
\* the number of days of the displayed month
DisplayedDays == DaysInMonth(GetFullYear(currentDate), GetMonth(currentDate))

\* every day of the displayed month is a day the record covers
SpanContainsMonth(tx) ==
    /\ tx.date <= DisplayedFirstDay
    /\ DisplayedFirstDay + DisplayedDays <= CoverageEndDay(tx)

(* C30: in the category breakdown of Analysis a multi-month record whose    *)
(* coverage span contains the whole displayed month is credited             *)
(* (days in that month / total coverage days) x amount, every day of the    *)
(* month counted, its last day included.                                    *)
C30_WholeMonthShare ==
    \A tx \in StoredTx :
        (Charted(tx) /\ SpanContainsMonth(tx)) =>
            BreakdownValue(tx) =
                Frac(DisplayedDays * tx.amount, CoverageEndDay(tx) - tx.date)

----------------------------------------------------------------------------
(* The database module: getDB and initDB called by several queries at once, *)
(* each suspended at its awaits.                                            *)

MaxCallers == 2

\* the lengths of defaultIncome and defaultExpense
DefaultIncome == 5
DefaultExpense == 10

Callers == 1..MaxCallers

InitConn ==
    /\ conn = [db |-> "null", loads |-> 0, migrations |-> 0, tables |-> {},
               categories |-> [INCOME |-> 0, EXPENSE |-> 0],
               callers |-> [c \in Callers |-> [pc |-> "idle", seeded |-> 0]]]
    /\ tz \in TZOffsets
    /\ transactions = <<>>
    /\ startDateStr = 0
    /\ endDateStr = 0
    /\ stats = ZeroStats
    /\ idx = 1
    /\ i = 0
    /\ pc = "idle"
    /\ call = 1
    /\ previous = ZeroStats
    /\ currentDate = 0
    /\ catMap = <<>>
    /\ db = <<>>
    /\ split = <<>>
    /\ rangeType = "MONTHLY"
    /\ range = <<>>
    /\ vault = <<>>

NotConn ==
    <<tz, transactions, startDateStr, endDateStr, stats, idx, i, pc,
      call, previous, currentDate, catMap, db, split, rangeType, range, vault>>

\* caller c moves to position p
At(c, p) == [conn.callers EXCEPT ![c].pc = p]

\* getDB(): the connection if there is one, else initDB(), which tests db
\* again and starts Database.load
GetDB(c) ==
    /\ conn.callers[c].pc = "idle"
    /\ conn' = IF conn.db # "null"
               THEN [conn EXCEPT !.callers = At(c, "returned")]
               ELSE [conn EXCEPT !.loads = @ + 1, !.callers = At(c, "load")]
    /\ UNCHANGED NotConn

\* Database.load resolves: db is assigned and runMigrations is entered
LoadResolved(c) ==
    /\ conn.callers[c].pc = "load"
    /\ conn' = [conn EXCEPT !.db = "open", !.migrations = @ + 1,
                            !.callers = At(c, "createCategories")]
    /\ UNCHANGED NotConn

\* CREATE TABLE IF NOT EXISTS categories
CreateCategories(c) ==
    /\ conn.callers[c].pc = "createCategories"
    /\ conn' = [conn EXCEPT !.tables = @ \cup {"categories"},
                            !.callers = At(c, "createTransactions")]
    /\ UNCHANGED NotConn

\* CREATE TABLE IF NOT EXISTS transactions
CreateTransactions(c) ==
    /\ conn.callers[c].pc = "createTransactions"
    /\ conn' = [conn EXCEPT !.tables = @ \cup {"transactions"},
                            !.callers = At(c, "count")]
    /\ UNCHANGED NotConn

\* SELECT COUNT(*) FROM categories and the test of its result
SelectCount(c) ==
    /\ conn.callers[c].pc = "count"
    /\ conn' = IF conn.categories.INCOME + conn.categories.EXPENSE = 0
               THEN [conn EXCEPT !.callers = At(c, "seed")]
               ELSE [conn EXCEPT !.callers = At(c, "returned")]
    /\ UNCHANGED NotConn

\* one INSERT of the two seeding loops
Insert(c) ==
    /\ conn.callers[c].pc = "seed"
    /\ LET n == conn.callers[c].seeded
           type == IF n < DefaultIncome THEN "INCOME" ELSE "EXPENSE"
           last == n + 1 = DefaultIncome + DefaultExpense
       IN  conn' = [conn EXCEPT
                      !.categories[type] = @ + 1,
                      !.callers[c] = [pc |-> IF last THEN "returned" ELSE "seed",
                                      seeded |-> n + 1]]
    /\ UNCHANGED NotConn

NextConn ==
    \E c \in Callers :
        \/ GetDB(c)
        \/ LoadResolved(c)
        \/ CreateCategories(c)
        \/ CreateTransactions(c)
        \/ SelectCount(c)
        \/ Insert(c)

SpecConn == InitConn /\ [][NextConn]_vars

(* C28: however many getDB() / initDB() calls are started before the first  *)
(* Database.load has resolved, Database.load and runMigrations are executed *)
(* at most once and the default categories are seeded at most once.         *)
C28_SingleInitialisation ==
    /\ conn.loads <= 1
    /\ conn.migrations <= 1
    /\ conn.categories.INCOME <= DefaultIncome
    /\ conn.categories.EXPENSE <= DefaultExpense

----------------------------------------------------------------------------
(* The Vault: unlocking, activity, manual lock and the auto-lock timers.    *)
(* Time is counted in minutes. Each function of the component reads the     *)
(* autoLockTimeout of the render that created it: unlock and lock that of   *)
(* the render in which they were invoked or scheduled, resetActivityTimer   *)
(* (memoized on config and isUnlocked) that of the render in which          *)
(* isUnlocked last changed.                                                 *)

MaxTime == 7
MaxTimers == 3

\* auto_lock_minutes of vault_config
AutoLockMinutes == 5

\* no timer: the null of autoLockTimeout
NoTimer == 0

InitVault ==
    /\ vault = [isUnlocked |-> FALSE, autoLockTimeout |-> NoTimer,
                captured |-> NoTimer, timers |-> {}, nextId |-> 1,
                now |-> 0, lastActivity |-> 0,
                unlocking |-> FALSE, unlockSeen |-> NoTimer,
                lockedBy |-> "none"]
    /\ tz \in TZOffsets
    /\ transactions = <<>>
    /\ startDateStr = 0
    /\ endDateStr = 0
    /\ stats = ZeroStats
    /\ idx = 1
    /\ i = 0
    /\ pc = "idle"
    /\ call = 1
    /\ previous = ZeroStats
    /\ currentDate = 0
    /\ catMap = <<>>
    /\ db = <<>>
    /\ split = <<>>
    /\ rangeType = "MONTHLY"
    /\ range = <<>>
    /\ conn = <<>>

NotVault ==
    <<tz, transactions, startDateStr, endDateStr, stats, idx, i, pc,
      call, previous, currentDate, catMap, db, split, rangeType, range, conn>>

\* clearTimeout(id): nothing happens for null or a timer no longer pending
ClearTimeout(timers, id) == {t \in timers : t.id # id}

\* startAutoLockTimer as created by a render whose autoLockTimeout was
\* `seen`: clears that timer, schedules lock() of the same render and
\* stores the new timer
StartAutoLockTimer(v, seen) ==
    [v EXCEPT !.timers = ClearTimeout(@, seen) \cup
                           {[id |-> v.nextId, due |-> v.now + AutoLockMinutes,
                             clears |-> seen]},
              !.autoLockTimeout = v.nextId,
              !.nextId = @ + 1]

\* lock() of a render whose autoLockTimeout was `seen`; a change of
\* isUnlocked makes the next render create resetActivityTimer anew
Lock(v, seen, by) ==
    [v EXCEPT !.isUnlocked = FALSE,
              !.timers = ClearTimeout(@, seen),
              !.captured = IF v.isUnlocked THEN v.autoLockTimeout ELSE @,
              !.lockedBy = IF v.isUnlocked THEN by ELSE @]

\* unlock with the right password, up to await updateLastAccessed()
Unlock ==
    /\ ~vault.isUnlocked
    /\ ~vault.unlocking
    /\ vault' = [vault EXCEPT !.isUnlocked = TRUE,
                              !.captured = vault.autoLockTimeout,
                              !.lastActivity = vault.now,
                              !.unlocking = TRUE,
                              !.unlockSeen = vault.autoLockTimeout,
                              !.lockedBy = "none"]
    /\ UNCHANGED NotVault

\* updateLastAccessed() has resolved: unlock starts the timer with the
\* startAutoLockTimer of the render in which it was invoked
UnlockResume ==
    /\ vault.unlocking
    /\ vault.nextId <= MaxTimers
    /\ vault' = [StartAutoLockTimer(vault, vault.unlockSeen) EXCEPT !.unlocking = FALSE]
    /\ UNCHANGED NotVault

\* mousemove or keydown while unlocked: resetActivityTimer
Activity ==
    /\ vault.isUnlocked
    /\ vault.nextId <= MaxTimers
    /\ vault' = [StartAutoLockTimer(vault, vault.captured)
                     EXCEPT !.lastActivity = vault.now]
    /\ UNCHANGED NotVault

\* the Lock button of VaultMain: lock() of the current render
ManualLock ==
    /\ vault.isUnlocked
    /\ vault' = Lock(vault, vault.autoLockTimeout, "user")
    /\ UNCHANGED NotVault

\* a pending timer runs out and calls the lock() it was scheduled with
TimerFires ==
    /\ \E t \in vault.timers :
          /\ t.due <= vault.now
          /\ vault' = Lock([vault EXCEPT !.timers = @ \ {t}], t.clears, "timer")
    /\ UNCHANGED NotVault

\* a minute passes; timers that are due fire first
Tick ==
    /\ vault.now < MaxTime
    /\ \A t \in vault.timers : t.due > vault.now
    /\ vault' = [vault EXCEPT !.now = @ + 1]
    /\ UNCHANGED NotVault

NextVault ==
    Unlock \/ UnlockResume \/ Activity \/ ManualLock \/ TimerFires \/ Tick

SpecVault == InitVault /\ [][NextVault]_vars

(* C29: every mousemove or keydown cancels the pending auto-lock timer and  *)
(* starts a new one, so at most one timer is pending, and the vault is      *)
(* locked automatically only when auto_lock_minutes have passed since the   *)
(* most recent activity.                                                    *)
C29_LockFollowsActivity ==
    [][/\ Cardinality(vault'.timers) <= 1
       /\ (vault.isUnlocked /\ ~vault'.isUnlocked /\ vault'.lockedBy = "timer") =>
              vault.now >= vault.lastActivity + AutoLockMinutes]_vars

====
